---- MODULE Spec2Model ----
(***************************************************************************)
(* Model of the KV-cache compression pipeline of globalmcp:                *)
(*   FreqKVService.compress   (src/mcp/services/freqkv_service.py)         *)
(*   LoCoCoService.fuse       (src/mcp/services/lococo_service.py)         *)
(*   compress_kv_cache        (src/mcp/server.py)                          *)
(*                                                                         *)
(* Numbers.  A cache is a sequence of tokens, a token a sequence of        *)
(* values.  A value is a record: an exact rational ("num"), a row of an    *)
(* inverse-DCT reconstruction ("idct", an uninterpreted float32 that is a  *)
(* function of the transformed column, the number of coefficients kept and *)
(* the row), or an average over a window holding idct values ("avg").      *)
(* Averages of plain numbers are computed exactly, as rationals.  The      *)
(* float32 narrowing done by np.array(..., dtype=np.float32) is modelled   *)
(* as round-to-nearest-even on a 24 bit significand.  Ratios are rationals *)
(* <<p, q>>, q > 0; for the ratios of Ratios and the lengths reached here  *)
(* int(n * ratio) in binary floating point equals the exact truncation.    *)
(***************************************************************************)
EXTENDS Integers, Sequences, FiniteSets, TLC

VARIABLES op, kv_cache, sink_tokens, compression_ratio, target_ratio,
          kernel_size, target_size, pc, i, fused_tokens, result,
          caller_cache, freqkv_service, lococo_service, calls, fusion_cache,
          mcp, routing, registry

vars == <<op, kv_cache, sink_tokens, compression_ratio, target_ratio,
          kernel_size, target_size, pc, i, fused_tokens, result,
          caller_cache, freqkv_service, lococo_service, calls, fusion_cache,
          mcp, routing, registry>>

\* What the calls on the two compression services leave alone: the request
\* handler of the server, the routing service and the model registry.
components == <<mcp, routing, registry>>

(***************************************************************************)
(* Bounds of the model.                                                    *)
(***************************************************************************)
MaxLen == 3
MaxDim == 2
MaxRamp == 12
MaxSink == 3
MaxKernel == 3
MaxTarget == 4
MaxCallers == 2

(***************************************************************************)
(* Program constants.                                                      *)
(***************************************************************************)
default_compression_ratio == <<7, 10>>
default_kernel_size == 7
default_target_size == 256
default_target_ratio == <<1, 2>>
default_sink_tokens == 10
tool_default_sink_tokens == 10
tool_default_compression_ratio == <<1, 2>>

(***************************************************************************)
(* Python values: None and optional arguments, results and exceptions.     *)
(***************************************************************************)
None == <<>>
Some(x) == <<x>>

\* The value an optional argument takes: the given one, else the default.
OrDefault(arg, default) == IF arg = None THEN default ELSE arg[1]

Ok(cache) == [status |-> "ok", exc |-> "", value |-> cache]
Raise(e) == [status |-> "error", exc |-> e, value |-> <<>>]

(***************************************************************************)
(* Arithmetic.                                                             *)
(***************************************************************************)
Abs(x) == IF x < 0 THEN -x ELSE x

Max(a, b) == IF a >= b THEN a ELSE b

Min(a, b) == IF a <= b THEN a ELSE b

RECURSIVE Gcd(_, _)
Gcd(a, b) == IF b = 0 THEN a ELSE Gcd(b, a % b)

RECURSIVE Pow2(_)
Pow2(e) == IF e <= 0 THEN 1 ELSE 2 * Pow2(e - 1)

\* Python's int(x) of the quotient a / b, b > 0: truncation toward zero.
TruncDiv(a, b) == IF a >= 0 THEN a \div b ELSE -((-a) \div b)

\* int(n * ratio) for the ratio <<p, q>>.
PyInt(n, ratio) == TruncDiv(n * ratio[1], ratio[2])

\* Python's a // b for b # 0: the floor of the quotient.
FloorDiv(a, b) == IF b > 0 THEN a \div b ELSE (-a) \div (-b)

\* Python's s[:n] and s[n:], negative n counting from the end.
SliceStop(len, n) == IF n < 0 THEN Max(0, len + n) ELSE Min(n, len)

PySliceTo(s, n) == SubSeq(s, 1, SliceStop(Len(s), n))

PySliceFrom(s, n) == SubSeq(s, SliceStop(Len(s), n) + 1, Len(s))

(***************************************************************************)
(* Values.                                                                 *)
(***************************************************************************)
Rat(n, d) ==
    LET g == Gcd(Abs(n), d)
    IN [tag |-> "num", num |-> n \div g, den |-> d \div g,
        keep |-> 0, row |-> 0, args |-> <<>>]

Num(n) == Rat(n, 1)

IdctValue(col, kept, j) ==
    [tag |-> "idct", num |-> 0, den |-> 1, keep |-> kept, row |-> j, args |-> col]

AvgValue(window) ==
    [tag |-> "avg", num |-> 0, den |-> 1, keep |-> 0, row |-> 0, args |-> window]

\* The largest e with 2^e <= a, for a >= 1.
RECURSIVE Exponent(_)
Exponent(a) == IF a < 2 THEN 0 ELSE 1 + Exponent(a \div 2)

\* The float32 nearest to the integer x (ties to the even significand).
RoundFloat32(x) ==
    LET a == Abs(x)
        e == Exponent(a)
        ulp == IF e <= 23 THEN 1 ELSE Pow2(e - 23)
        q == a \div ulp
        r == a % ulp
        up == (2 * r > ulp) \/ (2 * r = ulp /\ q % 2 = 1)
        m == (IF up THEN q + 1 ELSE q) * ulp
    IN IF x < 0 THEN -m ELSE m

\* np.float32 of one value: integers are rounded; idct values are float32
\* already (no non-integer rational or avg value is ever passed to a stage).
ToFloat32(v) ==
    IF v.tag = "num" /\ v.den = 1 THEN Num(RoundFloat32(v.num)) ELSE v

\* All tokens of the cache have the same dimension.
Uniform(cache) == \A t \in 1..Len(cache) : Len(cache[t]) = Len(cache[1])

\* np.array(kv_cache, dtype=np.float32) raises ValueError for rows of
\* different lengths (an inhomogeneous shape).
ArrayError(cache) == IF Uniform(cache) THEN "" ELSE "ValueError"

\* np.array(kv_cache, dtype=np.float32)
AsFloat32Array(cache) ==
    [t \in 1..Len(cache) |-> [d \in 1..Len(cache[t]) |-> ToFloat32(cache[t][d])]]

(***************************************************************************)
(* FreqKVService                                                           *)
(***************************************************************************)
\* The column of feature dimension d of a non-empty array.
Column(cache, d) == [t \in 1..Len(cache) |-> cache[t][d]]

\* As _apply_dct_compression, but returning the whole reconstruction.
apply_dct_all_rows(cache, ratio) ==
    LET n_tokens == Len(cache)
        n_keep == PyInt(n_tokens, ratio)
        kept == SliceStop(n_tokens, n_keep)
    IN [t \in 1..n_tokens |->
           [d \in 1..Len(cache[1]) |-> IdctValue(Column(cache, d), kept, t)]]

\* As _apply_dct_compression, but returning n_keep rows even beyond the
\* n_tokens there are, the missing ones zero.
apply_dct_padded_rows(cache, ratio) ==
    LET n_tokens == Len(cache)
        n_keep == PyInt(n_tokens, ratio)
        kept == SliceStop(n_tokens, n_keep)
    IN [t \in 1..Max(n_keep, SliceStop(n_tokens, n_keep)) |->
           [d \in 1..Len(cache[1]) |->
               IF t <= n_tokens THEN IdctValue(Column(cache, d), kept, t) ELSE Num(0)]]

_apply_dct_compression(cache, ratio) ==
    LET n_tokens == Len(cache)
        n_dims == Len(cache[1])
        n_keep == PyInt(n_tokens, ratio)
        \* compressed_coeffs[n_keep:] = 0 leaves the coefficients [:n_keep]
        kept == SliceStop(n_tokens, n_keep)
        reconstructed ==
            [t \in 1..n_tokens |->
                [d \in 1..n_dims |-> IdctValue(Column(cache, d), kept, t)]]
    IN PySliceTo(reconstructed, n_keep)

\* As compress, but with the guard len(kv_cache) < sink_tokens.
compress_strict_guard(cache, sink, ratio_arg) ==
    LET ratio == OrDefault(ratio_arg, default_compression_ratio)
    IN IF Len(cache) < sink
       THEN Ok(cache)
       ELSE LET kv_array == AsFloat32Array(cache)
                sink_cache == PySliceTo(kv_array, sink)
                compressible_cache == PySliceFrom(kv_array, sink)
            IN IF ArrayError(cache) # ""
               THEN Raise(ArrayError(cache))
               ELSE IF Len(compressible_cache) = 0
               THEN Raise("ValueError")
               ELSE Ok(sink_cache \o _apply_dct_compression(compressible_cache, ratio))

compress(cache, sink, ratio_arg) ==
    LET ratio == OrDefault(ratio_arg, default_compression_ratio)
    IN IF Len(cache) <= sink
       THEN Ok(cache)
       ELSE LET kv_array == AsFloat32Array(cache)
                sink_cache == PySliceTo(kv_array, sink)
                compressible_cache == PySliceFrom(kv_array, sink)
            IN IF ArrayError(cache) # ""
               THEN Raise(ArrayError(cache))
               ELSE IF Len(compressible_cache) = 0
               THEN Raise("ValueError")
               ELSE Ok(sink_cache \o _apply_dct_compression(compressible_cache, ratio))

(***************************************************************************)
(* LoCoCoService                                                           *)
(***************************************************************************)
RECURSIVE SumNum(_)
SumNum(vals) == IF vals = <<>> THEN 0 ELSE Head(vals).num + SumNum(Tail(vals))

\* np.average of the values of one feature dimension under equal weights
\* (the weights kernel[:len(window)] are normalised by their sum): the mean.
\* The values of an array are integers or idct values.
AverageValues(vals) ==
    IF \A n \in 1..Len(vals) : vals[n].tag = "num"
    THEN Rat(SumNum(vals), Len(vals))
    ELSE IF Len(vals) = 1 THEN vals[1] ELSE AvgValue(vals)

\* As Average, but over all values of the window at once (no axis=0).
Average_flat(window) ==
    <<AverageValues(Column(window, 1))>>

\* np.average(window, axis=0, weights=...) of a non-empty window.
Average(window) ==
    [d \in 1..Len(window[1]) |-> AverageValues(Column(window, d))]

\* As ResolveTargetSize, but without the lower bound of one token.
ResolveTargetSize_no_max(n_tokens, ratio, target_arg) ==
    IF target_arg = None
    THEN PyInt(n_tokens, ratio)
    ELSE Min(target_arg[1], n_tokens)

\* target_size as resolved by fuse (lines 49-52).
ResolveTargetSize(n_tokens, ratio, target_arg) ==
    IF target_arg = None
    THEN Max(1, PyInt(n_tokens, ratio))
    ELSE Min(target_arg[1], n_tokens)

\* As Stride, but rounding the quotient up.
Stride_rounded_up(n_tokens, target) == Max(1, -FloorDiv(-n_tokens, target))

\* stride = max(1, n_tokens // target_size), target_size # 0.
Stride(n_tokens, target) == Max(1, FloorDiv(n_tokens, target))

\* A response of the server: result and error are None or Some(x).
MCPResponse(res, err, id) == [result |-> res, error |-> err, id |-> id]

\* No request has come yet.
NoRequest ==
    [pc |-> "idle",
     request |-> [method |-> "", id |-> None, name |-> None,
                  arguments |-> [kv_cache |-> None, sink_tokens |-> None,
                                 compression_ratio |-> None, prompt |-> None]],
     response |-> MCPResponse(None, None, None),
     ran |-> None]

\* A Python value a call on the routing service returns: its type and, for
\* a str, which of the texts of the service it is.
PyValue(type, text) == [type |-> type, text |-> text]

\* generate_response has not been called.
NoGeneration ==
    [pc |-> "idle", prompt |-> "", model_endpoint |-> None, backend |-> "",
     status_code |-> 0, body |-> None, returned |-> PyValue("", ""),
     raised |-> ""]

\* A dict with str keys is a function on its keys; {} is the function on
\* no key.
EmptyDict == [k \in {} |-> ""]

\* ModelRegistry.__init__; default_models is never written again.
default_models ==
    [k \in {"simple", "moderate", "complex"} |->
        CASE k = "simple" -> "ollama://phi3"
          [] k = "moderate" -> "ollama://mistral"
          [] k = "complex" -> "ollama://llama3"]

\* The registry after __init__, with the last call on it: the complexity
\* asked for, the endpoint returned and the exception raised.
ModelRegistry ==
    [pc |-> "ready", models |-> EmptyDict, complexity_mapping |-> EmptyDict,
     complexity |-> "", returned |-> "", raised |-> ""]

\* The local state of _apply_convolution_fusion on entering its for loop.
FusionInit == [pc |-> "SLIDING", i |-> 0, fused_tokens |-> <<>>, exc |-> ""]

\* As SlideContinues, but with the for loop over range(0, n_tokens, stride).
SlideContinues_to_end(n_tokens, target, kernel, st) ==
    /\ st.i < n_tokens
    /\ Len(st.fused_tokens) < target

\* The for loop has a next index and does not break.
SlideContinues(n_tokens, target, kernel, st) ==
    /\ st.i < n_tokens - kernel + 1
    /\ Len(st.fused_tokens) < target

\* As RemainingStart, but without the stride.
RemainingStart_no_stride(tokens, stride) == Len(tokens)

\* remaining_start = len(fused_tokens) * stride
RemainingStart(tokens, stride) == Len(tokens) * stride

\* As PadContinues, but without the test len(fused_tokens) < target_size.
PadContinues_ignores_target(n_tokens, target, stride, st) ==
    /\ Len(st.fused_tokens) < n_tokens
    /\ RemainingStart(st.fused_tokens, stride) < n_tokens

\* The while loop's condition holds and its body does not break.
PadContinues(n_tokens, target, stride, st) ==
    /\ Len(st.fused_tokens) < target
    /\ Len(st.fused_tokens) < n_tokens
    /\ RemainingStart(st.fused_tokens, stride) < n_tokens

\* As FusionStep, but with the while loop appending zero tokens.
FusionStep_zero_padding(cache, target, kernel, st) ==
    LET n_tokens == Len(cache)
        stride == Stride(n_tokens, target)
    IN IF st.pc = "SLIDING"
       THEN IF SlideContinues(n_tokens, target, kernel, st)
            THEN LET window == SubSeq(cache, st.i + 1, Min(st.i + kernel, n_tokens))
                 IN IF Len(window) = 0
                    THEN [st EXCEPT !.pc = "DONE", !.exc = "ZeroDivisionError"]
                    ELSE [st EXCEPT !.i = st.i + stride,
                                    !.fused_tokens = Append(st.fused_tokens, Average(window))]
            ELSE [st EXCEPT !.pc = "PADDING"]
       ELSE IF PadContinues(n_tokens, target, stride, st)
            THEN [st EXCEPT !.fused_tokens =
                     Append(st.fused_tokens, [d \in 1..Len(cache[1]) |-> Num(0)])]
            ELSE [st EXCEPT !.pc = "DONE",
                            !.fused_tokens = PySliceTo(st.fused_tokens, target)]

\* One step of _apply_convolution_fusion from the local state st: one
\* iteration of the for loop, its exit, one iteration of the while loop, or
\* the exit of the while loop with the trim to target_size.
FusionStep(cache, target, kernel, st) ==
    LET n_tokens == Len(cache)
        stride == Stride(n_tokens, target)
    IN IF st.pc = "SLIDING"
       THEN IF SlideContinues(n_tokens, target, kernel, st)
            THEN LET window == SubSeq(cache, st.i + 1, Min(st.i + kernel, n_tokens))
                 IN IF Len(window) = 0
                    THEN [st EXCEPT !.pc = "DONE", !.exc = "ZeroDivisionError"]
                    ELSE [st EXCEPT !.i = st.i + stride,
                                    !.fused_tokens = Append(st.fused_tokens, Average(window))]
            ELSE [st EXCEPT !.pc = "PADDING"]
       ELSE IF PadContinues(n_tokens, target, stride, st)
            THEN LET remaining_start == RemainingStart(st.fused_tokens, stride)
                 IN [st EXCEPT !.fused_tokens = Append(st.fused_tokens, cache[remaining_start + 1])]
            ELSE [st EXCEPT !.pc = "DONE",
                            !.fused_tokens = PySliceTo(st.fused_tokens, target)]

\* What the call returns once its local state is final.
FusionResult(st) == IF st.exc = "" THEN Ok(st.fused_tokens) ELSE Raise(st.exc)

RECURSIVE RunFusion(_, _, _, _)
RunFusion(cache, target, kernel, st) ==
    IF st.pc = "DONE" THEN FusionResult(st)
    ELSE RunFusion(cache, target, kernel, FusionStep(cache, target, kernel, st))

\* Lines 76-82: the stride and the kernel are computed before the loops.
FusionEntryError(target, kernel) ==
    IF target = 0 THEN "ZeroDivisionError"
    ELSE IF kernel < 0 THEN "ValueError"
    ELSE ""

_apply_convolution_fusion(cache, target, kernel) ==
    IF FusionEntryError(target, kernel) # ""
    THEN Raise(FusionEntryError(target, kernel))
    ELSE RunFusion(cache, target, kernel, FusionInit)

\* As FuseReturnsEarly, but for the empty cache only.
FuseReturnsEarly_empty_only(cache, ratio, target_arg) == Len(cache) = 0

\* fuse returns before _apply_convolution_fusion (lines 41-57).
FuseReturnsEarly(cache, ratio, target_arg) ==
    \/ Len(cache) = 0
    \/ Len(cache) <= ResolveTargetSize(Len(cache), ratio, target_arg)

fuse(cache, ratio, kernel_arg, target_arg) ==
    IF Len(cache) # 0 /\ ArrayError(cache) # ""
    THEN Raise(ArrayError(cache))
    ELSE IF FuseReturnsEarly(cache, ratio, target_arg)
    THEN Ok(cache)
    ELSE _apply_convolution_fusion(
             AsFloat32Array(cache),
             ResolveTargetSize(Len(cache), ratio, target_arg),
             OrDefault(kernel_arg, default_kernel_size))

(***************************************************************************)
(* server.compress_kv_cache                                                *)
(***************************************************************************)
\* args.get("sink_tokens", 10), args.get("compression_ratio", 0.5); the
\* compression stage is called with sink_tokens only, the fusion stage with
\* compression_ratio as its target_ratio.
compress_kv_cache(cache, sink_arg, ratio_arg) ==
    LET sink == OrDefault(sink_arg, tool_default_sink_tokens)
        ratio == OrDefault(ratio_arg, tool_default_compression_ratio)
        freq_compressed == compress(cache, sink, None)
        final_compressed == fuse(freq_compressed.value, ratio, None, None)
    IN IF freq_compressed.status = "error" THEN freq_compressed
       ELSE IF final_compressed.status = "error" THEN final_compressed
       ELSE IF Len(cache) = 0 THEN Raise("ZeroDivisionError")
       ELSE final_compressed

(***************************************************************************)
(* Objects and writes in place.  A call names several lists and arrays;    *)
(* Storage gives the object whose memory each of them uses.  The caller's  *)
(* list is "kv_cache".  The only writes in place are the assignment        *)
(* compressed_coeffs[n_keep:] = 0 and the appends to fused_tokens.         *)
(***************************************************************************)
\* As Storage, but with every array a view of the caller's list.
Storage_shared(buffer) == "kv_cache"

Storage(buffer) ==
    CASE buffer = "kv_cache" -> "kv_cache"
      \* np.array(kv_cache, dtype=np.float32) copies
      [] buffer = "kv_array" -> "kv_array"
      \* kv_array[sink_tokens:] is a view of kv_array
      [] buffer = "compressible_cache" -> "kv_array"
      \* dct(...) returns a new array
      [] buffer = "dct_coeffs" -> "dct_coeffs"
      \* dct_coeffs.copy()
      [] buffer = "compressed_coeffs" -> "compressed_coeffs"
      \* fused_tokens = []
      [] buffer = "fused_tokens" -> "fused_tokens"

ZeroWrite(buffer, rows) ==
    [buffer |-> buffer, kind |-> "zero", rows |-> rows, token |-> <<>>]

AppendWrite(buffer, token) ==
    [buffer |-> buffer, kind |-> "append", rows |-> {}, token |-> token]

\* The rows compressed_coeffs[n_keep:] = 0 overwrites, counted from the start
\* of kv_array: compressed_coeffs has the shape of kv_array[sink_tokens:].
ZeroedRows(cache, sink, ratio) ==
    LET first == Len(PySliceTo(cache, sink))
        n_tokens == Len(cache) - first
        n_keep == PyInt(n_tokens, ratio)
    IN (first + SliceStop(n_tokens, n_keep) + 1)..Len(cache)

\* The writes in place of one compress call, in order.
CompressWrites(cache, sink, ratio_arg) ==
    IF /\ Len(cache) > sink
       /\ ArrayError(cache) = ""
       /\ Len(PySliceFrom(cache, sink)) # 0
    THEN <<ZeroWrite("compressed_coeffs",
                     ZeroedRows(cache, sink,
                                OrDefault(ratio_arg, default_compression_ratio)))>>
    ELSE <<>>

\* The write of one step of the fusion loops: the append, if it made one.
\* The trim fused_tokens[:target_size] builds a new list.
StepWrites(st, next) ==
    IF Len(next.fused_tokens) > Len(st.fused_tokens)
    THEN <<AppendWrite("fused_tokens", next.fused_tokens[Len(next.fused_tokens)])>>
    ELSE <<>>

RECURSIVE FusionWrites(_, _, _, _)
FusionWrites(cache, target, kernel, st) ==
    IF st.pc = "DONE" THEN <<>>
    ELSE LET next == FusionStep(cache, target, kernel, st)
         IN StepWrites(st, next) \o FusionWrites(cache, target, kernel, next)

\* The writes in place of one fuse call, in order.
FuseWrites(cache, ratio, kernel_arg, target_arg) ==
    LET target == ResolveTargetSize(Len(cache), ratio, target_arg)
        kernel == OrDefault(kernel_arg, default_kernel_size)
    IN IF \/ Len(cache) = 0
          \/ ArrayError(cache) # ""
          \/ FuseReturnsEarly(cache, ratio, target_arg)
          \/ FusionEntryError(target, kernel) # ""
       THEN <<>>
       ELSE FusionWrites(AsFloat32Array(cache), target, kernel, FusionInit)

\* The content of the caller's list after one write.
Written(content, w) ==
    IF Storage(w.buffer) # "kv_cache" THEN content
    ELSE IF w.kind = "zero"
    THEN [t \in 1..Len(content) |->
             IF t \in w.rows
             THEN [d \in 1..Len(content[t]) |-> Num(0)]
             ELSE content[t]]
    ELSE Append(content, w.token)

RECURSIVE AfterWrites(_, _)
AfterWrites(content, writes) ==
    IF writes = <<>> THEN content
    ELSE AfterWrites(Written(content, Head(writes)), Tail(writes))

\* compress_kv_cache hands to fuse what compress returned: the caller's own
\* list when compress returned early.
PipelineWrites(cache, sink_arg, ratio_arg) ==
    LET sink == OrDefault(sink_arg, tool_default_sink_tokens)
        ratio == OrDefault(ratio_arg, tool_default_compression_ratio)
    IN CompressWrites(cache, sink, None)
       \o (IF Len(cache) <= sink THEN FuseWrites(cache, ratio, None, None) ELSE <<>>)

(***************************************************************************)
(* The service objects.  server.py builds one FreqKVService and one        *)
(* LoCoCoService when it is loaded and every request uses them.  Their     *)
(* attributes are set by __init__; compress and fuse read them and have no *)
(* assignment to self.                                                     *)
(***************************************************************************)
FreqKVService == [default_compression_ratio |-> default_compression_ratio]

LoCoCoService == [default_kernel_size |-> default_kernel_size,
                  default_target_size |-> default_target_size]

\* As FreqKVAfterCompress, but keeping the ratio of the call as the default.
FreqKVAfterCompress_stores_ratio(self, ratio) ==
    [self EXCEPT !.default_compression_ratio = ratio]

\* The attributes of the FreqKVService after a compress call.
FreqKVAfterCompress(self, ratio) == self

\* The attributes of the LoCoCoService after a fuse call.
LoCoCoAfterFuse(self, kernel) == self

(***************************************************************************)
(* Inputs.                                                                 *)
(***************************************************************************)
\* 2^24 + 1 is the least positive integer that float32 cannot represent.
Values == {-1, 0, 1, Pow2(24) + 1}

\* Tokens of dimension D: <<v, v + 1, ..>> for the values v.
Tokens(D) == {[d \in 1..D |-> Num(v + d - 1)] : v \in Values}

ShortCaches == UNION {[1..n -> Tokens(D)] : n \in 0..MaxLen, D \in 1..MaxDim}

\* Longer caches, one per length, whose tokens are <<1>>, <<2>>, ..
RampCaches == {[t \in 1..n |-> <<Num(t)>>] : n \in (MaxLen + 1)..MaxRamp}

\* Caches whose tokens do not all have the same dimension.
RaggedCaches ==
    {[t \in 1..n |-> IF t = p THEN <<Num(1), Num(2)>> ELSE <<Num(1)>>] :
        n \in 2..MaxLen, p \in 1..MaxLen} \ ShortCaches

Caches == ShortCaches \cup RampCaches \cup RaggedCaches

Ratios == {<<-3, 2>>, <<-1, 2>>, <<0, 1>>, <<1, 4>>, <<1, 2>>, <<7, 10>>,
           <<1, 1>>, <<3, 2>>}

Optional(S) == {None} \cup {Some(x) : x \in S}

SinkArgs == Optional(-1..MaxSink)

KernelArgs == Optional(-1..MaxKernel)

TargetArgs == Optional(-1..MaxTarget)

Pending == [status |-> "pending", exc |-> "", value |-> <<>>]

\* The callers that may have a request in progress at the same time.
Callers == 1..MaxCallers

\* A caller with no request in progress.
IdleCall ==
    [op |-> "none", kv_cache |-> <<>>, sink_tokens |-> None,
     compression_ratio |-> None, target_ratio |-> default_target_ratio,
     kernel_size |-> None, target_size |-> None, kernel |-> 0,
     pc |-> "idle", i |-> 0, fused_tokens |-> <<>>, result |-> Pending]

\* The caches of concurrent requests: the shortest and the longest ramp.
ConcurrentCaches == {c \in RampCaches : Len(c) \in {MaxLen + 1, MaxRamp}}

\* The requests callers make concurrently: compress and fuse, each with its
\* default taken from the service object and with the default given.
ConcurrentCalls ==
    {[IdleCall EXCEPT !.op = "compress", !.pc = "CALLED", !.kv_cache = c,
                      !.sink_tokens = Some(1), !.compression_ratio = r] :
        c \in ConcurrentCaches, r \in {None, Some(<<1, 4>>)}}
    \cup
    {[IdleCall EXCEPT !.op = "fuse", !.pc = "CALLED", !.kv_cache = c,
                      !.kernel_size = k] :
        c \in ConcurrentCaches, k \in {None, Some(2)}}

(***************************************************************************)
(* The state machine: a caller invokes one operation after another on the  *)
(* shared service objects.  compress and compress_kv_cache run in one      *)
(* step; fuse runs its two loops one iteration per step.                   *)
(***************************************************************************)
Init ==
    /\ op = "none"
    /\ kv_cache = <<>>
    /\ sink_tokens = None
    /\ compression_ratio = None
    /\ target_ratio = default_target_ratio
    /\ kernel_size = None
    /\ target_size = None
    /\ pc = "idle"
    /\ i = 0
    /\ fused_tokens = <<>>
    /\ result = Pending
    /\ caller_cache = <<>>
    /\ freqkv_service = FreqKVService
    /\ lococo_service = LoCoCoService
    /\ calls = [c \in Callers |-> IdleCall]
    /\ fusion_cache = <<>>
    /\ mcp = NoRequest
    /\ routing = NoGeneration
    /\ registry = ModelRegistry

Idle == pc = "idle"

\* The local state of the fusion loops, as FusionStep takes it.
LoopState == [pc |-> pc, i |-> i, fused_tokens |-> fused_tokens, exc |-> ""]

\* The arguments of the running fuse call, as _apply_convolution_fusion gets them.
FuseArray == AsFloat32Array(kv_cache)

FuseTarget == ResolveTargetSize(Len(kv_cache), target_ratio, target_size)

FuseKernel == OrDefault(kernel_size, default_kernel_size)

CallCompress ==
    /\ Idle
    /\ \E c \in Caches, k \in SinkArgs, r \in Optional(Ratios) :
          /\ op' = "compress"
          /\ kv_cache' = c
          /\ sink_tokens' = k
          /\ compression_ratio' = r
          /\ result' = compress(c, OrDefault(k, default_sink_tokens), r)
          /\ caller_cache' =
                 AfterWrites(c, CompressWrites(c, OrDefault(k, default_sink_tokens), r))
    /\ target_ratio' = default_target_ratio
    /\ kernel_size' = None
    /\ target_size' = None
    /\ pc' = "DONE"
    /\ i' = 0
    /\ fused_tokens' = <<>>
    /\ UNCHANGED <<freqkv_service, lococo_service, calls, components>>
    /\ fusion_cache' = <<>>

\* fuse up to the for loop of _apply_convolution_fusion (lines 36-85), on
\* one of the given caches.
CallFuseOn(caches) ==
    /\ Idle
    /\ \E c \in caches, r \in Ratios, k \in KernelArgs, t \in TargetArgs :
          /\ t # None => r = default_target_ratio
          /\ op' = "fuse"
          /\ kv_cache' = c
          /\ target_ratio' = r
          /\ kernel_size' = k
          /\ target_size' = t
          /\ caller_cache' = c
          /\ fusion_cache' = IF Len(c) # 0 /\ ArrayError(c) = "" THEN AsFloat32Array(c) ELSE <<>>
          /\ LET target == ResolveTargetSize(Len(c), r, t)
                 kernel == OrDefault(k, default_kernel_size)
             IN IF Len(c) # 0 /\ ArrayError(c) # ""
                THEN pc' = "DONE" /\ result' = Raise(ArrayError(c))
                ELSE IF FuseReturnsEarly(c, r, t)
                THEN pc' = "DONE" /\ result' = Ok(c)
                ELSE IF FusionEntryError(target, kernel) # ""
                THEN pc' = "DONE" /\ result' = Raise(FusionEntryError(target, kernel))
                ELSE pc' = "SLIDING" /\ result' = Pending
    /\ sink_tokens' = None
    /\ compression_ratio' = None
    /\ i' = 0
    /\ fused_tokens' = <<>>
    /\ UNCHANGED <<freqkv_service, lococo_service, calls, components>>

CallFuse == CallFuseOn(Caches)

\* The loop state after one step, and the call's result if that step ends it.
Advance ==
    LET st == FusionStep(fusion_cache, FuseTarget, FuseKernel, LoopState)
    IN /\ pc' = st.pc
       /\ i' = st.i
       /\ fused_tokens' = st.fused_tokens
       /\ result' = IF st.pc = "DONE" THEN FusionResult(st) ELSE Pending
       /\ caller_cache' = AfterWrites(caller_cache, StepWrites(LoopState, st))
       /\ UNCHANGED <<op, kv_cache, sink_tokens, compression_ratio,
                      target_ratio, kernel_size, target_size>>
       /\ UNCHANGED <<freqkv_service, lococo_service, calls, fusion_cache, components>>

\* One iteration of the for loop: a window is averaged, or np.average raises.
SlideStep ==
    /\ pc = "SLIDING"
    /\ SlideContinues(Len(kv_cache), FuseTarget, FuseKernel, LoopState)
    /\ Advance

\* The for loop ends: its range is exhausted or it breaks.
SlideExit ==
    /\ pc = "SLIDING"
    /\ ~SlideContinues(Len(kv_cache), FuseTarget, FuseKernel, LoopState)
    /\ Advance

\* One iteration of the while loop: a raw token is appended.
PadStep ==
    /\ pc = "PADDING"
    /\ PadContinues(Len(kv_cache), FuseTarget, Stride(Len(kv_cache), FuseTarget), LoopState)
    /\ Advance

\* The while loop ends; the tokens are trimmed and returned.
PadExit ==
    /\ pc = "PADDING"
    /\ ~PadContinues(Len(kv_cache), FuseTarget, Stride(Len(kv_cache), FuseTarget), LoopState)
    /\ Advance

CallCompressKvCache ==
    /\ Idle
    /\ \E c \in Caches, k \in SinkArgs, r \in Optional(Ratios) :
          /\ op' = "compress_kv_cache"
          /\ kv_cache' = c
          /\ sink_tokens' = k
          /\ compression_ratio' = r
          /\ result' = compress_kv_cache(c, k, r)
          /\ caller_cache' = AfterWrites(c, PipelineWrites(c, k, r))
    /\ target_ratio' = default_target_ratio
    /\ kernel_size' = None
    /\ target_size' = None
    /\ pc' = "DONE"
    /\ i' = 0
    /\ fused_tokens' = <<>>
    /\ UNCHANGED <<freqkv_service, lococo_service, calls, components>>
    /\ fusion_cache' = <<>>

\* The call has returned or raised; the caller drops its arguments and its
\* result, and the services, which keep nothing of the call, are ready again.
Return ==
    /\ pc = "DONE"
    /\ op' = "none"
    /\ kv_cache' = <<>>
    /\ sink_tokens' = None
    /\ compression_ratio' = None
    /\ target_ratio' = default_target_ratio
    /\ kernel_size' = None
    /\ target_size' = None
    /\ pc' = "idle"
    /\ i' = 0
    /\ fused_tokens' = <<>>
    /\ result' = Pending
    /\ caller_cache' = <<>>
    /\ fusion_cache' = <<>>
    /\ UNCHANGED <<freqkv_service, lococo_service, calls, components>>

Next ==
    \/ CallCompress
    \/ CallFuse
    \/ SlideStep
    \/ SlideExit
    \/ PadStep
    \/ PadExit
    \/ CallCompressKvCache
    \/ Return

Spec == Init /\ [][Next]_vars

(***************************************************************************)
(* One fuse call on a ramp cache from its start to its end.  A call that   *)
(* has begun runs on: the interpreter takes the next step of a loop, or    *)
(* its exit, whenever there is one.  Nothing obliges a caller to make the  *)
(* call.                                                                   *)
(***************************************************************************)
LoopStep == SlideStep \/ SlideExit \/ PadStep \/ PadExit

CallFuseRamp == CallFuseOn(RampCaches)

NextFuse ==
    \/ CallFuseRamp
    \/ SlideStep
    \/ SlideExit
    \/ PadStep
    \/ PadExit

SpecFuse == Init /\ [][NextFuse]_vars /\ WF_vars(LoopStep)

(***************************************************************************)
(* Concurrent requests.  Several callers have requests in progress on the  *)
(* two service objects at once, and their steps interleave.  A call reads  *)
(* the service object once, on entry, where it takes its default; all else *)
(* it works on is local to the call.                                       *)
(***************************************************************************)
\* The variables of the single caller above.
caller == <<op, kv_cache, sink_tokens, compression_ratio, target_ratio,
            kernel_size, target_size, pc, i, fused_tokens, result, caller_cache,
            fusion_cache>>

\* Caller c makes a request.
Invoke(c) ==
    /\ calls[c].pc = "idle"
    /\ \E call \in ConcurrentCalls : calls' = [calls EXCEPT ![c] = call]
    /\ UNCHANGED <<components, caller, freqkv_service, lococo_service>>

\* compress, from the read of self.default_compression_ratio to its return.
EnterCompress(c) ==
    LET call == calls[c]
        ratio == OrDefault(call.compression_ratio,
                           freqkv_service.default_compression_ratio)
    IN /\ call.pc = "CALLED"
       /\ call.op = "compress"
       /\ calls' = [calls EXCEPT
                       ![c].pc = "DONE",
                       ![c].result = compress(call.kv_cache,
                                              OrDefault(call.sink_tokens, default_sink_tokens),
                                              Some(ratio))]
       /\ freqkv_service' = FreqKVAfterCompress(freqkv_service, ratio)
       /\ UNCHANGED <<components, caller, lococo_service>>

\* fuse, from the read of self.default_kernel_size to the for loop.
EnterFuse(c) ==
    LET call == calls[c]
        kernel == OrDefault(call.kernel_size, lococo_service.default_kernel_size)
        target == ResolveTargetSize(Len(call.kv_cache), call.target_ratio, call.target_size)
    IN /\ call.pc = "CALLED"
       /\ call.op = "fuse"
       /\ calls' = [calls EXCEPT ![c] =
             IF Len(call.kv_cache) # 0 /\ ArrayError(call.kv_cache) # ""
             THEN [call EXCEPT !.pc = "DONE", !.result = Raise(ArrayError(call.kv_cache))]
             ELSE IF FuseReturnsEarly(call.kv_cache, call.target_ratio, call.target_size)
             THEN [call EXCEPT !.pc = "DONE", !.result = Ok(call.kv_cache)]
             ELSE IF FusionEntryError(target, kernel) # ""
             THEN [call EXCEPT !.pc = "DONE",
                               !.result = Raise(FusionEntryError(target, kernel))]
             ELSE [call EXCEPT !.pc = "SLIDING", !.kernel = kernel]]
       /\ lococo_service' = LoCoCoAfterFuse(lococo_service, kernel)
       /\ UNCHANGED <<components, caller, freqkv_service>>

\* One step of the loops of caller c's fuse.
StepFuse(c) ==
    LET call == calls[c]
        st == FusionStep(AsFloat32Array(call.kv_cache),
                         ResolveTargetSize(Len(call.kv_cache), call.target_ratio,
                                           call.target_size),
                         call.kernel,
                         [pc |-> call.pc, i |-> call.i,
                          fused_tokens |-> call.fused_tokens, exc |-> ""])
    IN /\ call.pc \in {"SLIDING", "PADDING"}
       /\ calls' = [calls EXCEPT
                       ![c].pc = st.pc,
                       ![c].i = st.i,
                       ![c].fused_tokens = st.fused_tokens,
                       ![c].result = IF st.pc = "DONE" THEN FusionResult(st) ELSE Pending]
       /\ UNCHANGED <<components, caller, freqkv_service, lococo_service>>

\* Caller c takes the result of its request.
Collect(c) ==
    /\ calls[c].pc = "DONE"
    /\ calls' = [calls EXCEPT ![c] = IdleCall]
    /\ UNCHANGED <<components, caller, freqkv_service, lococo_service>>

NextConcurrent ==
    \E c \in Callers :
        \/ Invoke(c)
        \/ EnterCompress(c)
        \/ EnterFuse(c)
        \/ StepFuse(c)
        \/ Collect(c)

SpecConcurrent == Init /\ [][NextConcurrent]_vars

(***************************************************************************)
(* server.handle_mcp_request.  A request has a method, an id and, in its   *)
(* params, the name of a tool and the tool's arguments.  A tool returns a  *)
(* dict or raises; the handler turns every Exception into an error         *)
(* response.                                                               *)
(***************************************************************************)

\* The dict a tool returns.
ToolResult(tool, compressed_kv) ==
    [status |-> "ok", exc |-> "",
     value |-> [tool |-> tool, compressed_kv |-> compressed_kv]]

\* route_prompt: classification, registry lookup and generate_response
\* return for every prompt; the prompt must be there.
route_prompt(args) ==
    IF args.prompt = None THEN Raise("KeyError")
    ELSE ToolResult("route_prompt", <<>>)

\* The tool compress_kv_cache on the arguments of a request.
compress_kv_cache_tool(args) ==
    IF args.kv_cache = None THEN Raise("KeyError")
    ELSE LET done == compress_kv_cache(args.kv_cache[1], args.sink_tokens,
                                       args.compression_ratio)
         IN IF done.status = "ok"
            THEN ToolResult("compress_kv_cache", done.value)
            ELSE done

\* process_full_pipeline: the cache is compressed if there is a non-empty
\* one, with sink_tokens 10 and compression_ratio 0.5; then the prompt is
\* routed.
process_full_pipeline(args) ==
    IF args.prompt = None THEN Raise("KeyError")
    ELSE LET compresses == args.kv_cache # None /\ Len(args.kv_cache[1]) # 0
             compression_result ==
                 IF compresses
                 THEN compress_kv_cache(args.kv_cache[1], Some(10), Some(<<1, 2>>))
                 ELSE Ok(<<>>)
         IN IF compression_result.status = "error" THEN compression_result
            ELSE IF route_prompt(args).status = "error" THEN route_prompt(args)
            ELSE ToolResult("process_full_pipeline", compression_result.value)

\* As ToolNotFound, but returning None for an unknown tool.
ToolNotFound_returns_none(tool_name) ==
    [status |-> "ok", exc |-> "", value |-> None]

\* raise HTTPException(status_code=404, message=...): HTTPException has no
\* parameter message, so the constructor raises TypeError; HTTPException
\* and TypeError are both Exceptions.
ToolNotFound(tool_name) == Raise("TypeError")

call_tool(tool_name, args) ==
    IF tool_name = Some("compress_kv_cache") THEN compress_kv_cache_tool(args)
    ELSE IF tool_name = Some("route_prompt") THEN route_prompt(args)
    ELSE IF tool_name = Some("process_full_pipeline") THEN process_full_pipeline(args)
    ELSE ToolNotFound(tool_name)

\* The tool function call_tool runs for a name, if any.
ToolRun(tool_name) ==
    IF tool_name \in {Some("compress_kv_cache"), Some("route_prompt"),
                      Some("process_full_pipeline")}
    THEN tool_name
    ELSE None

\* The result of "tools/list".
AvailableTools ==
    [tool |-> "tools/list", compressed_kv |-> <<>>]

\* The response to a request; result is None or Some(dict), error None or
\* Some([code, message]).
handle_mcp_request(request) ==
    IF request.method = "tools/list"
    THEN MCPResponse(Some(AvailableTools), None, request.id)
    ELSE IF request.method = "tools/call"
    THEN LET called == call_tool(request.name, request.arguments)
         IN IF called.status = "ok"
            THEN MCPResponse(IF called.value = None THEN None ELSE Some(called.value),
                             None, request.id)
            ELSE MCPResponse(None, Some([code |-> -32603, message |-> called.exc]),
                             request.id)
    ELSE MCPResponse(None, Some([code |-> -32601, message |-> "Unknown method"]),
                     request.id)

\* The caches, the arguments and the requests a client sends.
RequestCaches == {<<>>} \cup ConcurrentCaches \cup RaggedCaches

RequestArguments ==
    [kv_cache : Optional(RequestCaches),
     sink_tokens : {None, Some(1)},
     compression_ratio : {None, Some(<<1, 4>>)},
     prompt : Optional({"fix the import"})]

Requests ==
    [method : {"tools/list", "tools/call", "resources/list"},
     id : Optional({"1"}),
     name : Optional({"compress_kv_cache", "route_prompt",
                      "process_full_pipeline", "no_such_tool"}),
     arguments : RequestArguments]

\* The services and the single caller's state, which the handler of this
\* model leaves alone.
beyond_server == <<caller, freqkv_service, lococo_service, calls, routing, registry>>

\* A request comes and is answered.
HandleMcpRequest ==
    /\ mcp.pc = "idle"
    /\ \E request \in Requests :
          mcp' = [pc |-> "responded",
                  request |-> request,
                  response |-> handle_mcp_request(request),
                  ran |-> IF request.method = "tools/call"
                          THEN ToolRun(request.name) ELSE None]
    /\ UNCHANGED beyond_server

\* The response has gone to the client.
SendResponse ==
    /\ mcp.pc = "responded"
    /\ mcp' = NoRequest
    /\ UNCHANGED beyond_server

NextServer ==
    \/ HandleMcpRequest
    \/ SendResponse

SpecServer == Init /\ [][NextServer]_vars

(***************************************************************************)
(* routing_service.generate_response.  An endpoint is None (not a str) or  *)
(* a str, written as the sequence of its parts so that startswith is a     *)
(* test of the first part.  The backend either raises from client.post or  *)
(* answers with a status code and a body; the body parses as a JSON object *)
(* (with or without the keys "response" and "text", each of any JSON       *)
(* type), as a JSON array, or does not parse.  A call returns              *)
(* [status, exc, value] with value a PyValue.                              *)
(***************************************************************************)
startswith(model_endpoint, prefix) ==
    Len(model_endpoint) >= 1 /\ model_endpoint[1] = prefix

\* dict.get(key, default) on an optional entry of a parsed body.
Get(entry, default) == IF entry = None THEN default ELSE entry[1]

\* _generate_mock_response: classify_complexity takes any prompt (it
\* formats it into a str), prompt[:50] needs a prompt that can be sliced.
generate_mock_response(prompt) ==
    IF prompt = "int" THEN Raise("TypeError")
    ELSE [status |-> "ok", exc |-> "", value |-> PyValue("str", "mock")]

\* result = response.json(); result.get(key, default) for the keys in
\* order: what the two backends return on status 200.
ReadBody(body, keys, default) ==
    IF body.kind = "invalid" THEN Raise("JSONDecodeError")
    ELSE IF body.kind = "array" THEN Raise("AttributeError")
    ELSE [status |-> "ok", exc |-> "",
          value |-> Get(body.response,
                        IF "text" \in keys THEN Get(body.text, default)
                        ELSE default)]

\* The try block and the except clauses of a backend call: httpx.ConnectError
\* goes to the mock response where the backend has that clause, any other
\* Exception becomes the "request failed" text.
BackendCall(prompt, backend, status_code, body, keys, on_connect_error) ==
    IF backend = "ConnectError" /\ on_connect_error = "mock"
    THEN generate_mock_response(prompt)
    ELSE IF backend # "answers"
    THEN [status |-> "ok", exc |-> "", value |-> PyValue("str", "request failed")]
    ELSE IF status_code # 200
    THEN [status |-> "ok", exc |-> "", value |-> PyValue("str", "API error")]
    ELSE LET read == ReadBody(body, keys, PyValue("str", "No response"))
         IN IF read.status = "ok" THEN read
            ELSE [status |-> "ok", exc |-> "",
                  value |-> PyValue("str", "request failed")]

generate_ollama_response(prompt, backend, status_code, body) ==
    BackendCall(prompt, backend, status_code, body, {"response"}, "mock")

generate_http_response(prompt, backend, status_code, body) ==
    BackendCall(prompt, backend, status_code, body, {"response", "text"}, "failed")

\* generate_response: the dispatch on the endpoint inside try, and
\* except Exception, which returns the "Failed to generate" text.
generate_response(prompt, model_endpoint, backend, status_code, body) ==
    LET tried ==
            IF model_endpoint = None THEN Raise("AttributeError")
            ELSE IF startswith(model_endpoint[1], "ollama://")
            THEN generate_ollama_response(prompt, backend, status_code, body)
            ELSE IF startswith(model_endpoint[1], "http")
            THEN generate_http_response(prompt, backend, status_code, body)
            ELSE generate_mock_response(prompt)
    IN IF tried.status = "ok" THEN tried
       ELSE [status |-> "ok", exc |-> "",
             value |-> PyValue("str", "Failed to generate")]

\* The endpoints, prompts and backend outcomes of the model.
Endpoints ==
    {None, Some(<<>>), Some(<<"ollama://", "phi3">>), Some(<<"http", "://host/v1">>),
     Some(<<"http", "s://host/v1">>), Some(<<"mock://", "default">>),
     Some(<<"phi3">>)}

Prompts == {"str", "int"}

\* JSON values by their Python type after response.json(): a str, null, a
\* number.
JsonValues ==
    {PyValue("str", "generated"), PyValue("NoneType", ""), PyValue("int", "")}

Bodies ==
    [kind : {"object"}, response : Optional(JsonValues), text : Optional(JsonValues)]
    \cup
    {[kind |-> k, response |-> None, text |-> None] : k \in {"array", "invalid"}}

BackendOutcomes == {"answers", "ConnectError", "ReadTimeout"}

StatusCodes == {200, 404, 500}

\* The rest of the state, which a call of generate_response leaves alone.
beyond_routing == <<caller, freqkv_service, lococo_service, calls, mcp, registry>>

\* generate_response is called and returns or raises.
GenerateResponse ==
    /\ routing.pc = "idle"
    /\ \E prompt \in Prompts, model_endpoint \in Endpoints,
          backend \in BackendOutcomes, status_code \in StatusCodes, body \in Bodies :
          LET done == generate_response(prompt, model_endpoint, backend,
                                        status_code, body)
          IN routing' = [pc |-> "returned",
                         prompt |-> prompt,
                         model_endpoint |-> model_endpoint,
                         backend |-> backend,
                         status_code |-> status_code,
                         body |-> Some(body),
                         returned |-> IF done.status = "ok" THEN done.value
                                      ELSE PyValue("", ""),
                         raised |-> done.exc]
    /\ UNCHANGED beyond_routing

\* The caller takes the response text.
TakeResponse ==
    /\ routing.pc = "returned"
    /\ routing' = NoGeneration
    /\ UNCHANGED beyond_routing

NextRouting ==
    \/ GenerateResponse
    \/ TakeResponse

SpecRouting == Init /\ [][NextRouting]_vars

(***************************************************************************)
(* model_registry.ModelRegistry.  A config file is missing, unreadable     *)
(* (open or json.load raises, or the document is not an object, so that    *)
(* config.get raises) or valid: an object whose "models" and               *)
(* "complexity_mapping", where present, are objects of strings.            *)
(***************************************************************************)
\* d[key] = value on a dict.
SetItem(d, key, value) ==
    [k \in DOMAIN d \cup {key} |-> IF k = key THEN value ELSE d[k]]

\* d.get(key): None or Some(value).
GetItem(d, key) == IF key \in DOMAIN d THEN Some(d[key]) ELSE None

\* As Falsy, but true of None only.
Falsy_none_only(found) == found = None

\* not x, for x None or a str.
Falsy(found) == found = None \/ found[1] = ""

use_defaults(self) ==
    [self EXCEPT
        !.models = [k \in {"phi3", "mistral", "llama3", "mock-simple",
                           "mock-moderate", "mock-complex"} |->
                       CASE k = "phi3" -> "ollama://phi3"
                         [] k = "mistral" -> "ollama://mistral"
                         [] k = "llama3" -> "ollama://llama3"
                         [] k = "mock-simple" -> "mock://simple"
                         [] k = "mock-moderate" -> "mock://moderate"
                         [] k = "mock-complex" -> "mock://complex"],
        !.complexity_mapping = default_models]

\* _load_config on a file that exists: raises before any assignment, or
\* assigns both dicts.
load_config(self, config) ==
    IF config.kind = "unreadable"
    THEN [status |-> "error", exc |-> "Exception", value |-> self]
    ELSE [status |-> "ok", exc |-> "",
          value |-> [self EXCEPT
                        !.models = Get(config.models, EmptyDict),
                        !.complexity_mapping =
                            Get(config.complexity_mapping, EmptyDict)]]

initialize(self, config) ==
    IF config.kind = "missing" THEN use_defaults(self)
    ELSE LET loaded == load_config(self, config)
         IN IF loaded.status = "ok" THEN loaded.value
            ELSE use_defaults(self)

get_model_for_complexity(self, complexity) ==
    LET model_endpoint == GetItem(self.complexity_mapping, complexity)
    IN IF Falsy(model_endpoint)
       THEN Get(GetItem(default_models, complexity), "mock://default")
       ELSE model_endpoint[1]

register_model(self, name, endpoint) ==
    [self EXCEPT !.models = SetItem(self.models, name, endpoint)]

\* set_complexity_mapping: the registry after the call and the exception.
set_complexity_mapping(self, complexity, model_name) ==
    IF model_name \notin DOMAIN self.models
    THEN [status |-> "error", exc |-> "ValueError", value |-> self]
    ELSE [status |-> "ok", exc |-> "",
          value |-> [self EXCEPT
                        !.complexity_mapping =
                            SetItem(self.complexity_mapping, complexity,
                                    self.models[model_name])]]

\* The complexities, names, endpoints and config files of the model.
Complexities == {"simple", "moderate", "complex", "expert"}

ModelNames == {"phi3", "custom", "unregistered"}

RegisteredEndpoints == {"", "http://host/v1"}

ConfigModels ==
    {EmptyDict, [k \in {"custom"} |-> "http://host/v1"]}

ConfigMappings ==
    {EmptyDict, [k \in {"simple"} |-> "http://host/v1"],
     [k \in {"simple", "expert"} |-> IF k = "simple" THEN "" ELSE "http://host/v1"]}

Configs ==
    {[kind |-> k, models |-> None, complexity_mapping |-> None] :
        k \in {"missing", "unreadable"}}
    \cup
    [kind : {"valid"}, models : Optional(ConfigModels),
     complexity_mapping : Optional(ConfigMappings)]

\* The rest of the state, which the registry's methods leave alone.
beyond_registry == <<caller, freqkv_service, lococo_service, calls, mcp, routing>>

Called(self) == [self EXCEPT !.pc = "called", !.complexity = "", !.returned = "",
                             !.raised = ""]

Initialize ==
    /\ registry.pc = "ready"
    /\ \E config \in Configs : registry' = Called(initialize(registry, config))
    /\ UNCHANGED beyond_registry

RegisterModel ==
    /\ registry.pc = "ready"
    /\ \E name \in ModelNames \ {"unregistered"}, endpoint \in RegisteredEndpoints :
          registry' = Called(register_model(registry, name, endpoint))
    /\ UNCHANGED beyond_registry

SetComplexityMapping ==
    /\ registry.pc = "ready"
    /\ \E complexity \in Complexities, model_name \in ModelNames :
          LET done == set_complexity_mapping(registry, complexity, model_name)
          IN registry' = [Called(done.value) EXCEPT !.raised = done.exc]
    /\ UNCHANGED beyond_registry

GetModelForComplexity ==
    /\ registry.pc = "ready"
    /\ \E complexity \in Complexities :
          registry' = [Called(registry) EXCEPT
                          !.complexity = complexity,
                          !.returned = get_model_for_complexity(registry, complexity)]
    /\ UNCHANGED beyond_registry

\* The caller goes on after a call on the registry.
Resume ==
    /\ registry.pc = "called"
    /\ registry' = [registry EXCEPT !.pc = "ready", !.complexity = "",
                                    !.returned = "", !.raised = ""]
    /\ UNCHANGED beyond_registry

NextRegistry ==
    \/ Initialize
    \/ RegisterModel
    \/ SetComplexityMapping
    \/ GetModelForComplexity
    \/ Resume

SpecRegistry == Init /\ [][NextRegistry]_vars

(***************************************************************************)
(* What the claims speak of.                                               *)
(***************************************************************************)
N == Len(kv_cache)

CompressDone == op = "compress" /\ pc = "DONE"

FuseDone == op = "fuse" /\ pc = "DONE"

PipelineDone == op = "compress_kv_cache" /\ pc = "DONE"

Returned == result.status = "ok"

\* The sink_tokens and the compression_ratio a compress call works with.
SinkOf == OrDefault(sink_tokens, default_sink_tokens)

RatioOf == OrDefault(compression_ratio, default_compression_ratio)

\* floor(n * ratio), the mathematical floor.
FloorOf(n, ratio) == (n * ratio[1]) \div ratio[2]

RatioLeq(a, b) == a[1] * b[2] <= b[1] * a[2]

Zero == <<0, 1>>

One == <<1, 1>>

\* The first k tokens of the result are the first k tokens of the input.
PrefixKept(k) ==
    /\ Len(result.value) >= k
    /\ \A t \in 1..k : result.value[t] = kv_cache[t]

\* Some value of the input cache is not representable in float32.
NarrowingChanges(cache) == AsFloat32Array(cache) # cache

(***************************************************************************)
(* C1.  fuse with an explicit target_size, 0 <= target_size <= N, and a    *)
(* kernel_size >= 1 returns a cache of exactly target_size tokens.         *)
(* The code raises ZeroDivisionError for target_size = 0 on a non-empty    *)
(* cache (stride = max(1, n_tokens // target_size)).                       *)
(***************************************************************************)
C1_FuseExplicitTargetExact ==
    (/\ FuseDone
     /\ Uniform(kv_cache)
     /\ target_size # None
     /\ FuseKernel >= 1
     /\ 0 <= target_size[1]
     /\ target_size[1] <= N)
    => (Returned /\ Len(result.value) = target_size[1])

(***************************************************************************)
(* C2.  Without a target_size, for N >= 1, kernel_size >= 1 and any        *)
(* target_ratio r with max(1, floor(N * r)) < N, fuse returns exactly      *)
(* max(1, floor(N * r)) tokens.                                            *)
(***************************************************************************)
C2_FuseRatioExact ==
    (/\ FuseDone
     /\ Uniform(kv_cache)
     /\ target_size = None
     /\ FuseKernel >= 1
     /\ N >= 1
     /\ Max(1, FloorOf(N, target_ratio)) < N)
    => (Returned /\ Len(result.value) = Max(1, FloorOf(N, target_ratio)))

\* A fuse call by ratio whose N * r is no integer, that slid and padded.
C2_Witness ==
    /\ FuseDone
    /\ target_size = None
    /\ FuseKernel >= 2
    /\ N >= 1
    /\ (N * target_ratio[1]) % target_ratio[2] # 0
    /\ FloorOf(N, target_ratio) >= 2
    /\ FloorOf(N, target_ratio) < N
    /\ i > 0
    /\ Returned
    /\ Len(result.value) = FloorOf(N, target_ratio)
    /\ result.value[Len(result.value)] \in {FuseArray[t] : t \in 1..N}

(***************************************************************************)
(* C3.  For N > k = sink_tokens >= 0 and compression_ratio r in (0, 1],    *)
(* compress returns a cache of exactly k + floor((N - k) * r) tokens.      *)
(***************************************************************************)
C3_CompressLength ==
    (/\ CompressDone
     /\ Uniform(kv_cache)
     /\ SinkOf >= 0
     /\ N > SinkOf
     /\ ~RatioLeq(RatioOf, Zero)
     /\ RatioLeq(RatioOf, One))
    => (Returned /\ Len(result.value) = SinkOf + FloorOf(N - SinkOf, RatioOf))

\* A compress call that keeps a sink and drops part of the suffix.
C3_Witness ==
    /\ CompressDone
    /\ SinkOf >= 1
    /\ N > SinkOf + 1
    /\ ~RatioLeq(RatioOf, Zero)
    /\ ~RatioLeq(One, RatioOf)
    /\ Returned
    /\ Len(result.value) = SinkOf + FloorOf(N - SinkOf, RatioOf)
    /\ Len(result.value) > SinkOf
    /\ Len(result.value) < N

(***************************************************************************)
(* C4.  For sink_tokens = k >= 0 the first min(k, N) tokens of compress's  *)
(* output equal the first min(k, N) tokens of the input exactly.           *)
(* The code narrows the sink tokens to float32 when N > k.                 *)
(***************************************************************************)
C4_SinkPrefixExact ==
    (CompressDone /\ Uniform(kv_cache) /\ SinkOf >= 0)
    => (Returned /\ PrefixKept(Min(SinkOf, N)))

(***************************************************************************)
(* C5.  When N <= sink_tokens, compress returns the input cache unchanged, *)
(* whatever the compression_ratio.                                         *)
(***************************************************************************)
C5_SmallCacheUnchanged ==
    (CompressDone /\ N <= SinkOf) => result = Ok(kv_cache)

\* A non-empty cache no longer than the sink, holding a value float32
\* cannot represent, returned as it is.
C5_Witness ==
    /\ CompressDone
    /\ N >= 1
    /\ N <= SinkOf
    /\ compression_ratio # None
    /\ NarrowingChanges(kv_cache)
    /\ result = Ok(kv_cache)

(***************************************************************************)
(* C6.  fuse never upsamples: whenever it returns, its output has at most  *)
(* N tokens, and when the cache is empty or N <= the resolved target size  *)
(* the output is the input cache, token for token.                         *)
(***************************************************************************)
C6_FuseNeverUpsamples ==
    (FuseDone /\ Uniform(kv_cache)) =>
        /\ Returned => Len(result.value) <= N
        /\ (N = 0 \/ N <= FuseTarget) => result = Ok(kv_cache)

\* A non-empty cache below an explicit target, holding a value float32
\* cannot represent, returned as it is.
C6_Witness ==
    /\ FuseDone
    /\ N >= 1
    /\ target_size # None
    /\ N < target_size[1]
    /\ NarrowingChanges(kv_cache)
    /\ result = Ok(kv_cache)

(***************************************************************************)
(* C7.  The sink prefix survives compress_kv_cache: for N > sink_tokens    *)
(* the first sink_tokens tokens of the output are the first sink_tokens    *)
(* tokens of the input.  The code fuses the sink tokens with the rest, and *)
(* may return fewer tokens than sink_tokens.                               *)
(***************************************************************************)
ToolSinkOf == OrDefault(sink_tokens, tool_default_sink_tokens)

C7_PipelineKeepsSinkPrefix ==
    (PipelineDone /\ Uniform(kv_cache) /\ ToolSinkOf >= 0 /\ N > ToolSinkOf)
    => (Returned /\ PrefixKept(ToolSinkOf))

(***************************************************************************)
(* C8.  compress_kv_cache returns fuse(compress(cache, sink_tokens,        *)
(* compression_ratio), target_ratio) for the caller's sink_tokens and      *)
(* compression_ratio.  The code calls compress without the ratio, which    *)
(* then is the service's default 0.7.                                      *)
(***************************************************************************)
C8_PipelineIsComposition ==
    (/\ PipelineDone
     /\ Uniform(kv_cache)
     /\ sink_tokens # None
     /\ compression_ratio # None
     /\ Returned)
    => LET stage1 == compress(kv_cache, sink_tokens[1], compression_ratio)
       IN /\ stage1.status = "ok"
          /\ result = fuse(stage1.value, compression_ratio[1], None, None)

(***************************************************************************)
(* C9.  For N > sink_tokens >= 0 and a compression_ratio <= 0 compress     *)
(* keeps no suffix token: the output has exactly sink_tokens tokens.       *)
(* (Stated by the length alone, so that the float32 narrowing of C4 does   *)
(* not decide it.)  The code takes a negative n_keep as an index from the  *)
(* end.                                                                    *)
(***************************************************************************)
C9_NonPositiveRatioKeepsSinkOnly ==
    (/\ CompressDone
     /\ Uniform(kv_cache)
     /\ SinkOf >= 0
     /\ N > SinkOf
     /\ RatioLeq(RatioOf, Zero))
    => (Returned /\ Len(result.value) = SinkOf)

(***************************************************************************)
(* C10.  For N > sink_tokens >= 0 and a compression_ratio >= 1 compress    *)
(* raises nothing and keeps all N - sink_tokens suffix positions: the      *)
(* output has exactly N tokens.                                            *)
(***************************************************************************)
C10_RatioAtLeastOneKeepsLength ==
    (/\ CompressDone
     /\ Uniform(kv_cache)
     /\ SinkOf >= 0
     /\ N > SinkOf
     /\ RatioLeq(One, RatioOf))
    => (Returned /\ Len(result.value) = N)

\* A compress call with a ratio above 1: all coefficients and rows are kept.
C10_Witness ==
    /\ CompressDone
    /\ SinkOf >= 1
    /\ N >= SinkOf + 2
    /\ ~RatioLeq(RatioOf, One)
    /\ Returned
    /\ Len(result.value) = N
    /\ result.value[N][1].tag = "idct"
    /\ result.value[N][1].keep = N - SinkOf
    /\ result.value[N][1].row = N - SinkOf

(***************************************************************************)
(* C11.  Stage 1 never increases the cache length: whenever compress       *)
(* returns, for any sink_tokens (negative ones included) and any           *)
(* compression_ratio (out-of-range ones included), the output has at most  *)
(* N tokens.                                                               *)
(***************************************************************************)
C11_CompressNeverLonger ==
    (CompressDone /\ Returned) => Len(result.value) <= N

\* A compress call with a ratio above 1 and one with a negative sink_tokens
\* are both covered; this is the first, at full length.
C11_Witness ==
    /\ CompressDone
    /\ Returned
    /\ N >= 2
    /\ SinkOf < N
    /\ ~RatioLeq(RatioOf, One)
    /\ Len(result.value) = N

(***************************************************************************)
(* C12.  Every token compress or fuse returns has the dimension D of the   *)
(* tokens of the (uniform) input cache.                                    *)
(***************************************************************************)
C12_DimensionKept ==
    ((CompressDone \/ FuseDone) /\ Returned /\ Uniform(kv_cache))
    => \A t \in 1..Len(result.value) : Len(result.value[t]) = Len(kv_cache[1])

\* A fuse call on tokens of dimension 2 that returns an averaged token.
C12_Witness ==
    /\ FuseDone
    /\ Returned
    /\ N >= 2
    /\ Len(kv_cache[1]) = 2
    /\ FuseKernel >= 2
    /\ i > 0
    /\ Len(result.value) >= 1
    /\ Len(result.value) < N
    /\ Len(result.value[1]) = 2

(***************************************************************************)
(* C13.  For sink_tokens < 0 compress raises an error and returns no       *)
(* cache.  The code validates nothing: kv_array[:sink_tokens] and          *)
(* kv_array[sink_tokens:] take the negative value as an index from the end *)
(* and a cache is returned.                                                *)
(***************************************************************************)
C13_NegativeSinkRejected ==
    (CompressDone /\ SinkOf < 0) => result.status = "error"

(***************************************************************************)
(* C14.  For a non-empty cache and kernel_size <= 0 or an explicit         *)
(* target_size < 0, fuse raises an error and returns no cache.  The code   *)
(* validates nothing: it returns the input when N <= target_size, and the  *)
(* empty cache for a negative target_size.                                 *)
(***************************************************************************)
C14_BadFuseParametersRejected ==
    (/\ FuseDone
     /\ N >= 1
     /\ Uniform(kv_cache)
     /\ \/ FuseKernel <= 0
        \/ (target_size # None /\ target_size[1] < 0))
    => result.status = "error"

(***************************************************************************)
(* C15.  Both stages reject a cache whose tokens differ in length with an  *)
(* error, before any early return.  fuse does (np.array raises ValueError  *)
(* before the target size is looked at); compress returns such a cache     *)
(* unchanged when N <= sink_tokens.                                        *)
(***************************************************************************)
C15_RaggedCacheRejected ==
    ((CompressDone \/ FuseDone) /\ ~Uniform(kv_cache))
    => result.status = "error"

(***************************************************************************)
(* C16.  Neither compress nor fuse changes the caller's cache: during and  *)
(* after every call, returning or raising, the list passed in holds what   *)
(* it held when the call began.                                            *)
(***************************************************************************)
C16_InputNotMutated ==
    (op \in {"compress", "fuse"}) => caller_cache = kv_cache

\* compress has zeroed rows of compressed_coeffs, fuse has appended a token.
C16_Witness ==
    /\ caller_cache = kv_cache
    /\ \/ /\ CompressDone
          /\ Returned
          /\ CompressWrites(kv_cache, SinkOf, compression_ratio) # <<>>
          /\ CompressWrites(kv_cache, SinkOf, compression_ratio)[1].rows # {}
       \/ /\ FuseDone
          /\ Returned
          /\ FuseWrites(kv_cache, target_ratio, kernel_size, target_size) # <<>>

(***************************************************************************)
(* C17.  compress and fuse carry no state between calls: with several      *)
(* callers' requests interleaved on the shared service objects, every      *)
(* finished call has the result that the same call has when it runs alone  *)
(* on newly built services, whatever ran before it or alongside it.        *)
(***************************************************************************)
C17_ResultIndependentOfOtherCalls ==
    \A c \in Callers :
        calls[c].pc = "DONE" =>
            calls[c].result =
                IF calls[c].op = "compress"
                THEN compress(calls[c].kv_cache,
                              OrDefault(calls[c].sink_tokens, default_sink_tokens),
                              calls[c].compression_ratio)
                ELSE fuse(calls[c].kv_cache, calls[c].target_ratio,
                          calls[c].kernel_size, calls[c].target_size)

\* A compress that took its default from the service has finished while
\* another caller's fuse, begun after a compress with a ratio of its own,
\* is in its loops.
C17_Witness ==
    \E c \in Callers, d \in Callers :
        /\ c # d
        /\ calls[c].pc = "DONE"
        /\ calls[c].op = "compress"
        /\ calls[c].compression_ratio = None
        /\ calls[c].result.status = "ok"
        /\ calls[d].op = "fuse"
        /\ calls[d].pc = "PADDING"
        /\ calls[d].kernel_size = None

(***************************************************************************)
(* C18.  Averaging and non-zero tokens.                                    *)
(***************************************************************************)
\* The token has a component that is not zero.
NonZeroToken(token) ==
    \E d \in 1..Len(token) : ~(token[d].tag = "num" /\ token[d].num = 0)

\* No component of the token is negative.
NonNegativeToken(token) ==
    \A d \in 1..Len(token) : token[d].tag = "num" /\ token[d].num >= 0

\* fuse has returned a cache shorter than its input.
FuseShortened ==
    /\ FuseDone
    /\ Returned
    /\ Uniform(kv_cache)
    /\ Len(result.value) < N

\* C18 as stated: when every input token is non-zero, no token returned by
\* a fuse that shortens the cache is all-zero.  The average of <<1>> and
\* <<-1>> is <<0>>.
C18_NonZeroInNonZeroOut ==
    (FuseShortened /\ \A t \in 1..N : NonZeroToken(kv_cache[t]))
    => \A t \in 1..Len(result.value) : NonZeroToken(result.value[t])

\* C18 amended: when every input token, as narrowed to float32, is non-zero
\* and has no negative component, no token returned by a fuse that shortens
\* the cache is all-zero.
C18_NonNegativeNonZeroInNonZeroOut ==
    (/\ FuseShortened
     /\ \A t \in 1..N : NonZeroToken(FuseArray[t]) /\ NonNegativeToken(FuseArray[t]))
    => \A t \in 1..Len(result.value) : NonZeroToken(result.value[t])

\* A returned average of tokens with zero components in different places,
\* followed by a raw token.
C18_Witness ==
    /\ FuseShortened
    /\ \A t \in 1..N : NonZeroToken(FuseArray[t]) /\ NonNegativeToken(FuseArray[t])
    /\ \E t \in 1..N : \E d \in 1..Len(kv_cache[t]) : kv_cache[t][d].num = 0
    /\ FuseKernel >= 2
    /\ i > 0
    /\ Len(result.value) >= 2

(***************************************************************************)
(* C19.  In the sliding phase the j-th token appended, j = 0, 1, .., is    *)
(* the equal-weight average, per feature dimension, of the tokens          *)
(* j*stride .. j*stride + kernel_size - 1 of the array the loops work on   *)
(* (the input as float32), with stride = max(1, floor(N / target_size));   *)
(* every window ends at or before N, so it holds kernel_size tokens.       *)
(***************************************************************************)
\* The stride of the running fuse call.
FuseStride == Stride(N, FuseTarget)

\* The number of tokens the for loop has appended: i advances by the stride
\* with every append.
Slid == i \div FuseStride

RECURSIVE SumOver(_, _, _, _)
SumOver(cache, d, first, last) ==
    IF first > last THEN 0
    ELSE cache[first][d].num + SumOver(cache, d, first + 1, last)

\* The mean of the width tokens of the cache that follow the first start.
WindowMean(cache, start, width) ==
    [d \in 1..Len(cache[1]) |-> Rat(SumOver(cache, d, start + 1, start + width), width)]

C19_SlidingWindows ==
    (op = "fuse" /\ pc \in {"SLIDING", "PADDING"}) =>
        /\ Slid <= Len(fused_tokens)
        /\ pc = "SLIDING" => Slid = Len(fused_tokens)
        /\ \A j \in 0..(Slid - 1) :
              /\ j * FuseStride + FuseKernel <= N
              /\ fused_tokens[j + 1] = WindowMean(FuseArray, j * FuseStride, FuseKernel)

\* The for loop has ended after three windows of two or more tokens, two or
\* more tokens apart.
C19_Witness ==
    /\ op = "fuse"
    /\ pc = "PADDING"
    /\ Slid >= 3
    /\ FuseKernel >= 2
    /\ FuseStride >= 2

(***************************************************************************)
(* C20.  In the padding phase each token appended is the token             *)
(* len(output) * stride of the array the loops work on, unaveraged, with   *)
(* len(output) taken before the append; so when the sliding phase gave     *)
(* W < target_size tokens, the returned token j, W <= j < target_size, is  *)
(* token j * stride of that array.                                         *)
(***************************************************************************)
C20_PaddingTokens ==
    /\ (op = "fuse" /\ pc = "PADDING") =>
          \A j \in Slid..(Len(fused_tokens) - 1) :
              fused_tokens[j + 1] = FuseArray[j * FuseStride + 1]
    /\ (/\ FuseDone
        /\ Returned
        /\ Uniform(kv_cache)
        /\ ~FuseReturnsEarly(kv_cache, target_ratio, target_size)
        /\ Slid < FuseTarget) =>
          \A j \in Slid..(FuseTarget - 1) :
              /\ j < Len(result.value)
              /\ result.value[j + 1] = FuseArray[j * FuseStride + 1]

\* A returned cache of averaged tokens followed by two or more raw tokens,
\* taken two or more tokens apart.
C20_Witness ==
    /\ FuseDone
    /\ Returned
    /\ ~FuseReturnsEarly(kv_cache, target_ratio, target_size)
    /\ Slid >= 1
    /\ FuseTarget >= Slid + 2
    /\ FuseStride >= 2
    /\ Len(result.value) = FuseTarget

(***************************************************************************)
(* C21.  Every run of the fusion loops with kernel_size >= 1 and           *)
(* 1 <= target_size < N goes from SLIDING to PADDING to DONE and never     *)
(* back: averaged tokens are appended in SLIDING only, so none follows a   *)
(* raw token; PADDING appends a token only when the windows were exhausted *)
(* with fewer than target_size tokens produced; and the run reaches DONE.  *)
(***************************************************************************)
\* The running fuse call is in its loops, with the parameters of the claim.
InFusionLoops ==
    /\ op = "fuse"
    /\ pc \in {"SLIDING", "PADDING"}
    /\ FuseKernel >= 1
    /\ 1 <= FuseTarget
    /\ FuseTarget < N

\* The for loop has no further window.
WindowsExhausted == i >= N - FuseKernel + 1

PhaseOrder ==
    InFusionLoops =>
        /\ pc = "SLIDING" => pc' \in {"SLIDING", "PADDING"}
        /\ pc = "PADDING" => pc' \in {"PADDING", "DONE"}
        /\ Len(fused_tokens') > Len(fused_tokens) =>
              /\ pc' = pc
              /\ fused_tokens' = Append(fused_tokens, fused_tokens'[Len(fused_tokens')])
              /\ pc = "SLIDING" =>
                    fused_tokens'[Len(fused_tokens')]
                        = WindowMean(FuseArray, i, FuseKernel)
              /\ pc = "PADDING" =>
                    /\ WindowsExhausted
                    /\ Len(fused_tokens) < FuseTarget
                    /\ fused_tokens'[Len(fused_tokens')]
                          = FuseArray[RemainingStart(fused_tokens, FuseStride) + 1]

C21_PhasesInOrderAndTerminate ==
    /\ [][PhaseOrder]_vars
    /\ InFusionLoops ~> (op = "fuse" /\ pc = "DONE")

\* A run that slid, then padded, and is done.
C21_Witness ==
    /\ FuseDone
    /\ Returned
    /\ FuseKernel >= 1
    /\ 1 <= FuseTarget
    /\ FuseTarget < N
    /\ Slid >= 1
    /\ WindowsExhausted
    /\ Len(result.value) > Slid

(***************************************************************************)
(* C22.  For 1 <= target_size < N and kernel_size >= 1 the padding index   *)
(* len(output) * stride is less than N whenever len(output) < target_size, *)
(* so the while loop never stops because the index ran past N: when it     *)
(* stops the output holds exactly target_size tokens, and the trim to      *)
(* target_size removes nothing.                                            *)
(***************************************************************************)
\* The while loop of the running call has stopped or is about to.
PaddingOver ==
    ~PadContinues(N, FuseTarget, FuseStride, LoopState)

C22_PaddingIndexInRange ==
    InFusionLoops =>
        /\ Len(fused_tokens) <= FuseTarget
        /\ Len(fused_tokens) < FuseTarget =>
              RemainingStart(fused_tokens, FuseStride) < N
        /\ (pc = "PADDING" /\ PaddingOver) =>
              /\ Len(fused_tokens) = FuseTarget
              /\ PySliceTo(fused_tokens, FuseTarget) = fused_tokens

\* The while loop is about to append its last token, the last but one of
\* the cache, after an earlier one.
C22_Witness ==
    /\ InFusionLoops
    /\ pc = "PADDING"
    /\ Len(fused_tokens) = FuseTarget - 1
    /\ Len(fused_tokens) > Slid + 1
    /\ FuseStride >= 2
    /\ RemainingStart(fused_tokens, FuseStride) = N - 2

(***************************************************************************)
(* C23.  For every kv_cache, the empty one included, the compress_kv_cache *)
(* tool returns a result, not an error, with compressed_size <=            *)
(* original_size and compression_ratio = compressed_size / original_size   *)
(* well defined.  For the empty cache the code divides by len(kv_cache)    *)
(* = 0 and raises ZeroDivisionError.                                       *)
(***************************************************************************)
C23_ToolAlwaysReturns ==
    (PipelineDone /\ Uniform(kv_cache) /\ ToolSinkOf >= 0)
    => (Returned /\ Len(result.value) <= N /\ N # 0)

(***************************************************************************)
(* C24.  handle_mcp_request answers every request with a response that     *)
(* carries the request's id and has exactly one of result and error set:   *)
(* "tools/list" and a "tools/call" whose tool returns set result; an       *)
(* unknown method sets error -32601; a "tools/call" whose tool raises, or  *)
(* whose tool name is unknown (no tool is run), sets error -32603.         *)
(***************************************************************************)
Responded == mcp.pc = "responded"

\* The tool of the request, called outside the handler, raises.
ToolRaises ==
    call_tool(mcp.request.name, mcp.request.arguments).status = "error"

C24_EveryRequestAnswered ==
    Responded =>
        /\ mcp.response.id = mcp.request.id
        /\ (mcp.response.result = None) # (mcp.response.error = None)
        /\ mcp.request.method = "tools/list" => mcp.response.result # None
        /\ (mcp.request.method = "tools/call" /\ ~ToolRaises) =>
              mcp.response.result # None
        /\ mcp.request.method \notin {"tools/list", "tools/call"} =>
              /\ mcp.response.error # None
              /\ mcp.response.error[1].code = -32601
        /\ (mcp.request.method = "tools/call" /\ ToolRaises) =>
              /\ mcp.response.error # None
              /\ mcp.response.error[1].code = -32603
        /\ (/\ mcp.request.method = "tools/call"
            /\ mcp.request.name \notin {Some("compress_kv_cache"), Some("route_prompt"),
                                        Some("process_full_pipeline")}) =>
              /\ mcp.ran = None
              /\ mcp.response.error # None
              /\ mcp.response.error[1].code = -32603

\* A call of a tool that is not there has been answered.
C24_Witness ==
    /\ Responded
    /\ mcp.request.method = "tools/call"
    /\ mcp.request.name = Some("no_such_tool")
    /\ mcp.request.id # None
    /\ mcp.response.error # None

(***************************************************************************)
(* C25.  generate_response always returns a str and never raises, for      *)
(* every endpoint and every backend outcome: "ollama://..." goes to the    *)
(* Ollama backend, otherwise "http..." to the HTTP backend, otherwise the  *)
(* mock response is returned; an Ollama connection failure falls back to   *)
(* the mock response; a non-200 status or any other failure gives an       *)
(* error text.                                                             *)
(***************************************************************************)
Generated == routing.pc = "returned"

ToOllama ==
    routing.model_endpoint # None /\ startswith(routing.model_endpoint[1], "ollama://")

ToHttp ==
    /\ routing.model_endpoint # None
    /\ ~ToOllama
    /\ startswith(routing.model_endpoint[1], "http")

C25_AlwaysReturnsString ==
    Generated =>
        /\ routing.raised = ""
        /\ routing.returned.type = "str"
        /\ (routing.model_endpoint # None /\ ~ToOllama /\ ~ToHttp /\ routing.prompt = "str") =>
              routing.returned.text = "mock"
        /\ (ToOllama /\ routing.backend = "ConnectError" /\ routing.prompt = "str") =>
              routing.returned.text = "mock"
        /\ ((ToOllama \/ ToHttp) /\ routing.backend = "answers"
               /\ routing.status_code # 200) =>
              routing.returned.text = "API error"
        /\ (ToHttp /\ routing.backend # "answers") =>
              routing.returned.text = "request failed"
        /\ (ToOllama /\ routing.backend = "ReadTimeout") =>
              routing.returned.text = "request failed"

(***************************************************************************)
(* C26.  After any sequence of initialize (missing, valid or unreadable    *)
(* config), register_model and set_complexity_mapping, where a             *)
(* set_complexity_mapping for an unregistered model raises ValueError and  *)
(* leaves the mapping unchanged, get_model_for_complexity returns a        *)
(* non-empty endpoint for every complexity: the configured mapping if      *)
(* present and non-empty, else the built-in default for simple, moderate   *)
(* and complex, else "mock://default".                                     *)
(***************************************************************************)
Answered == registry.pc = "called" /\ registry.complexity # ""

\* The endpoint the claim names for a complexity.
EndpointFor(complexity) ==
    IF /\ complexity \in DOMAIN registry.complexity_mapping
       /\ registry.complexity_mapping[complexity] # ""
    THEN registry.complexity_mapping[complexity]
    ELSE IF complexity = "simple" THEN "ollama://phi3"
    ELSE IF complexity = "moderate" THEN "ollama://mistral"
    ELSE IF complexity = "complex" THEN "ollama://llama3"
    ELSE "mock://default"

AlwaysAnEndpoint ==
    /\ \A complexity \in Complexities :
          /\ get_model_for_complexity(registry, complexity) # ""
          /\ get_model_for_complexity(registry, complexity) = EndpointFor(complexity)
    /\ Answered =>
          /\ registry.returned # ""
          /\ registry.returned = EndpointFor(registry.complexity)
          /\ registry.raised = ""

\* A call on the registry raises only ValueError, and then leaves the mapping
\* and the models as they were.
FailedSetChangesNothing ==
    registry'.raised # "" =>
        /\ registry'.raised = "ValueError"
        /\ registry'.complexity_mapping = registry.complexity_mapping
        /\ registry'.models = registry.models

C26_AlwaysAnEndpoint == []AlwaysAnEndpoint /\ [][FailedSetChangesNothing]_vars

\* An endpoint was asked for a complexity whose configured endpoint is
\* empty, in a registry with a registered model, and the default came back.
C26_Witness ==
    /\ Answered
    /\ registry.complexity = "simple"
    /\ "simple" \in DOMAIN registry.complexity_mapping
    /\ registry.complexity_mapping["simple"] = ""
    /\ "custom" \in DOMAIN registry.models
    /\ "expert" \in DOMAIN registry.complexity_mapping
    /\ registry.returned = "ollama://phi3"

====
